---- MODULE Spec2Model ----
(***************************************************************************)
(* The ETL pipeline of etl.py / sql_queries.py as a state machine.        *)
(*                                                                         *)
(* One run of main() is a straight-line program over a cursor: every      *)
(* cur.execute and every conn.commit is one step (program position pc),   *)
(* and every step may instead raise, which ends the run (no try/except    *)
(* anywhere in etl.py).  The relational store is modelled by the session's *)
(* view of the five target tables (db), the durable contents (committed), *)
(* the session-local TEMPORARY staging tables (temp_tables, staging) and  *)
(* the list of statements it received (executed).  pandas frames are       *)
(* sequences of [index, row] pairs: the index label is the row's position *)
(* in the query result and survives drop_duplicates and filter.           *)
(*                                                                         *)
(* NULL / None in an object column is the string None; NaN in a real       *)
(* column is the number NaN, outside the range of the modelled values.     *)
(***************************************************************************)
EXTENDS Integers, Sequences, FiniteSets, TLC

VARIABLES pc, i, run, s3, temp_tables, staging, db, committed,
          songs_df, a, df, executed, log

vars == <<pc, i, run, s3, temp_tables, staging, db, committed,
          songs_df, a, df, executed, log>>

\* ---------------------------------------------------------------- bounds
MaxSongs == 3
MaxEvents == 3
MaxRuns == 2
\* The progress interval.  The program reports when index % 1000 = 0
\* (etl.py lines 92 and 122); the model keeps that arithmetic and scales the
\* interval so that a frame of MaxSongs rows crosses it.
ReportInterval == 2

\* ------------------------------------------------------ program constants

None == "None"
NaN == 999

\* ------------------------------------------------------------ input rows
\* Rows of the song metadata blob, in the columns of staging_songs.
SongRow(sid, title, aid, aname, loc, lat) ==
    [num_songs |-> 1, artist_id |-> aid, artist_latitude |-> lat,
     artist_longitude |-> NaN, artist_location |-> loc, artist_name |-> aname,
     song_id |-> sid, title |-> title, duration |-> 180, year |-> 1971]

SongPool ==
    { SongRow("S1", "Imagine", "A1", "Lennon", None, NaN),
      SongRow("S2", "Imagine", "A2", "Lennon", "Liverpool", 53) }

\* Rows of the event log blob, in the columns of staging_logs that the
\* pipeline reads.
EventRow(uid, level, ts, artist, song, page) ==
    [userId |-> uid, firstName |-> "F", lastName |-> "L", gender |-> "M",
     level |-> level, ts |-> ts, artist |-> artist, song |-> song,
     length |-> 180, location |-> "NYC", sessionId |-> 7, userAgent |-> "UA",
     page |-> page]

EventPool ==
    { EventRow(1, "free", 18000000, "Lennon", "Imagine", "NextSong"),
      EventRow(1, "paid", 450000000, "Beatles", "Imagine", "NextSong"),
      EventRow(2, "free", 18000000, None, None, "Home") }

SeqsUpTo(S, n) == UNION { [1..m -> S] : m \in 0..n }

\* ------------------------------------------------------- pandas helpers
Range(s) == { s[j] : j \in 1..Len(s) }

Pos(s, c) == CHOOSE j \in 1..Len(s) : s[j] = c

\* pd.DataFrame(data, columns=columns): a RangeIndex 0..n-1 over the tuples
\* that fetchall returned, the tuple positions named by columns.
DataFrame(data, columns) ==
    [j \in 1..Len(data) |->
        [index |-> j - 1,
         row |-> [c \in Range(columns) |-> data[j][Pos(columns, c)]]]]

\* df.filter(cols) / row.filter(cols): keep the named columns, keep the index.
filter(f, cols) ==
    [j \in 1..Len(f) |->
        [index |-> f[j].index, row |-> [c \in Range(cols) |-> f[j].row[c]]]]

\* df.drop(to_drop, axis=1)
drop(f, to_drop) ==
    [j \in 1..Len(f) |->
        [index |-> f[j].index,
         row |-> [c \in (DOMAIN f[j].row) \ Range(to_drop) |-> f[j].row[c]]]]

\* A faulty variant: no deduplication at all.
drop_duplicates_none(f) == f

\* df.drop_duplicates(keep='last'): a row stays unless an equal row follows;
\* the surviving rows keep their order and their index labels.
drop_duplicates_last(f) ==
    SelectSeq(f, LAMBDA e :
        \A j \in 1..Len(f) : f[j].index > e.index => f[j].row # e.row)

\* df.drop_duplicates(keep='first'): a row stays unless an equal row precedes.
drop_duplicates_first(f) ==
    SelectSeq(f, LAMBDA e :
        \A j \in 1..Len(f) : f[j].index < e.index => f[j].row # e.row)

\* row.to_list(): the values in column order.
to_list(row, cols) == [j \in 1..Len(cols) |-> row[cols[j]]]

\* ------------------------------------------------------------ etl.py lists
songs_columns == <<"song_id", "song_name", "length", "artist_id", "artist_name",
                   "artist_location", "artist_latitude", "artist_longitude">>

artist_columns == SubSeq(songs_columns, 4, 8)

to_drop == <<"length", "artist_location", "artist_latitude", "artist_longitude">>

events_columns == <<"user_id", "first_name", "last_name", "gender", "level", "ts",
                    "artist_name", "song_name", "length", "location", "session_id",
                    "user_agent">>

t_c == <<"start_time", "hour", "day", "week", "month", "year", "weekday">>

u_c == <<"user_id", "first_name", "last_name", "gender", "level">>

s_c == <<"start_time", "user_id", "level", "session_id", "location", "user_agent",
         "song_id", "artist_id">>

\* ------------------------------------------------------- sql_queries.py
insert_temp_table_queries == <<"staging_logs", "staging_songs">>

copy_table_queries == <<"staging_logs", "staging_songs">>

\* CREATE TEMPORARY TABLE IF NOT EXISTS t: an existing table is left alone.
create_temporary_table(stg, tmp, t) ==
    IF t \in tmp THEN stg ELSE [stg EXCEPT ![t] = <<>>]

\* COPY t FROM <blob>: appends the blob's records to the staging table.
staging_copy(stg, t, blobs) == [stg EXCEPT ![t] = @ \o blobs[t]]

\* SELECT ... FROM staging_songs, the tuples in the order of the select list.
artists_select(stg) ==
    [j \in 1..Len(stg.staging_songs) |->
        LET r == stg.staging_songs[j] IN
        <<r.song_id, r.title, r.duration, r.artist_id, r.artist_name,
          r.artist_location, r.artist_latitude, r.artist_longitude>>]

\* SELECT ... FROM staging_logs WHERE page = 'NextSong'
events_select(stg) ==
    LET next_song == SelectSeq(stg.staging_logs, LAMBDA r : r.page = "NextSong") IN
    [j \in 1..Len(next_song) |->
        LET r == next_song[j] IN
        <<r.userId, r.firstName, r.lastName, r.gender, r.level, r.ts, r.artist,
          r.song, r.length, r.location, r.sessionId, r.userAgent>>]

\* INSERT INTO songs (...) SELECT song_id, title, artist_id, year, duration
\* FROM staging_songs
song_table_fast_insert(tables, stg) ==
    [tables EXCEPT !.songs = @ \o
        [j \in 1..Len(stg.staging_songs) |->
            LET r == stg.staging_songs[j] IN
            [song_id |-> r.song_id, title |-> r.title, artist_id |-> r.artist_id,
             year |-> r.year, duration |-> r.duration]]]

\* INSERT INTO <table> (<cols>) VALUES (%s, ...): the values bind by position;
\* the statements carry no conflict clause, so the row is always appended.
insert_values(tables, table, cols, values) ==
    [tables EXCEPT ![table] = Append(@, [c \in Range(cols) |-> values[Pos(cols, c)]])]

artist_table_cols == <<"artist_id", "name", "location", "latitude", "longitude">>

user_table_cols == <<"user_id", "first_name", "last_name", "gender", "level">>

time_table_cols == <<"start_time", "hour", "day", "week", "month", "year", "weekday">>

songplay_table_cols == <<"start_time", "user_id", "level", "session_id", "location",
                         "user_agent", "song_id", "artist_id">>

\* ------------------------------------------------ _timestamps_to_datetime
day_name == <<"Monday", "Tuesday", "Wednesday", "Thursday", "Friday", "Saturday",
              "Sunday">>

\* pd.to_datetime(ts, unit='ms') and its calendar fields, for instants of
\* January 1970 (ts < 31 days; 1970-01-01 was a Thursday in ISO week 1).
calendar_fields(ts) ==
    LET days == ts \div 86400000 IN
    [start_time |-> ts,
     hour |-> (ts \div 3600000) % 24,
     day |-> days + 1,
     week |-> ((days + 3) \div 7) + 1,
     month |-> 1,
     year |-> 1970,
     weekday |-> day_name[((days + 3) % 7) + 1]]

\* pd.concat([df, t], axis=1): the seven derived columns join each row.
_timestamps_to_datetime(f) ==
    [j \in 1..Len(f) |->
        [index |-> f[j].index, row |-> f[j].row @@ calendar_fields(f[j].row.ts)]]

\* df['song_id'], df['artist_id'] = None, None
with_null_ids(f) ==
    [j \in 1..Len(f) |->
        [index |-> f[j].index,
         row |-> f[j].row @@ [song_id |-> None, artist_id |-> None]]]

\* A faulty variant: the lookup compares the song title only.
lookup_title_only(row, catalog) ==
    LET s_df == SelectSeq(catalog, LAMBDA e : e.row.song_name = row.song_name) IN
    IF s_df # <<>>
    THEN [row EXCEPT !.song_id = s_df[1].row.song_id,
                     !.artist_id = s_df[1].row.artist_id]
    ELSE row

\* A faulty variant: the last matching catalog row wins (.iloc[-1]).
lookup_last_match(row, catalog) ==
    LET s_df == SelectSeq(catalog, LAMBDA e :
                    e.row.song_name = row.song_name
                    /\ e.row.artist_name = row.artist_name) IN
    IF s_df # <<>>
    THEN [row EXCEPT !.song_id = s_df[Len(s_df)].row.song_id,
                     !.artist_id = s_df[Len(s_df)].row.artist_id]
    ELSE row

\* songs_df.loc[(song_name == ...) & (artist_name == ...)] and the .iloc[0]
\* assignment: the first matching catalog row's ids, if any row matches.
lookup(row, catalog) ==
    LET s_df == SelectSeq(catalog, LAMBDA e :
                    e.row.song_name = row.song_name
                    /\ e.row.artist_name = row.artist_name) IN
    IF s_df # <<>>
    THEN [row EXCEPT !.song_id = s_df[1].row.song_id,
                     !.artist_id = s_df[1].row.artist_id]
    ELSE row

\* --------------------------------------------------------- store helpers
EmptyTables == [songs |-> <<>>, artists |-> <<>>, users |-> <<>>, time |-> <<>>,
                songplays |-> <<>>]

EmptyStaging == [staging_logs |-> <<>>, staging_songs |-> <<>>]

\* One entry of the store's statement log: the statement and the index label
\* of the frame row it was bound to (-1 for statements that bind no row).
Stmt(name, index) == [stmt |-> name, index |-> index]

\* ------------------------------------------------------------------ Init
TypeInit ==
    /\ pc = "main"
    /\ i = 0
    /\ run = 1
    /\ temp_tables = {}
    /\ staging = EmptyStaging
    /\ db = EmptyTables
    /\ committed = EmptyTables
    /\ songs_df = <<>>
    /\ a = <<>>
    /\ df = <<>>
    /\ executed = <<>>
    /\ log = <<>>

\* The object store holds any event log and any song blob drawn from the pools.
Init ==
    /\ TypeInit
    /\ \E logs \in SeqsUpTo(EventPool, MaxEvents), songs \in SeqsUpTo(SongPool, MaxSongs) :
          s3 = [staging_logs |-> logs, staging_songs |-> songs]

\* ------------------------------------------------------------------ main
\* config / psycopg2.connect / conn.cursor: a fresh session, no temp tables.
Connect ==
    /\ pc = "main"
    /\ pc' = "create_staging_tables"
    /\ i' = 1
    /\ UNCHANGED <<run, s3, temp_tables, staging, db, committed, songs_df, a, df,
                   executed, log>>

\* create_staging_tables: one CREATE per query of insert_temp_table_queries ...
CreateStagingTable ==
    /\ pc = "create_staging_tables"
    /\ LET t == insert_temp_table_queries[i] IN
          /\ staging' = create_temporary_table(staging, temp_tables, t)
          /\ temp_tables' = temp_tables \cup {t}
          /\ executed' = Append(executed, Stmt("create", -1))
    /\ IF i < Len(insert_temp_table_queries)
       THEN /\ i' = i + 1
            /\ pc' = pc
       ELSE /\ i' = 0
            /\ pc' = "create_commit"
    /\ UNCHANGED <<run, s3, db, committed, songs_df, a, df, log>>

\* ... then one conn.commit() after the loop.
CreateCommit ==
    /\ pc = "create_commit"
    /\ committed' = db
    /\ executed' = Append(executed, Stmt("commit", -1))
    /\ pc' = "copy"
    /\ i' = 1
    /\ UNCHANGED <<run, s3, temp_tables, staging, db, songs_df, a, df, log>>

\* copy_s3_to_staging: cur.execute(query) ...
CopyToStaging ==
    /\ pc = "copy"
    /\ staging' = staging_copy(staging, copy_table_queries[i], s3)
    /\ executed' = Append(executed, Stmt("copy", -1))
    /\ pc' = "copy_commit"
    /\ UNCHANGED <<i, run, s3, temp_tables, db, committed, songs_df, a, df, log>>

\* ... and conn.commit() inside the loop, once per copy query.
CopyCommit ==
    /\ pc = "copy_commit"
    /\ committed' = db
    /\ executed' = Append(executed, Stmt("commit", -1))
    /\ IF i < Len(copy_table_queries)
       THEN /\ i' = i + 1
            /\ pc' = "copy"
       ELSE /\ i' = 0
            /\ pc' = "song_table_fast_insert"
    /\ UNCHANGED <<run, s3, temp_tables, staging, db, songs_df, a, df, log>>

\* parse_and_insert: cur.execute(song_table_fast_insert)
SongFastInsert ==
    /\ pc = "song_table_fast_insert"
    /\ db' = song_table_fast_insert(db, staging)
    /\ executed' = Append(executed, Stmt("song_table_fast_insert", -1))
    /\ pc' = "artists_select"
    /\ UNCHANGED <<i, run, s3, temp_tables, staging, committed, songs_df, a, df, log>>

\* cur.execute(artists_select); fetchall; songs_df; and the head of
\* _insert_df_to_artist: a = df.drop_duplicates(keep='last') of the artist
\* columns.
ArtistsSelect ==
    /\ pc = "artists_select"
    /\ LET frame == DataFrame(artists_select(staging), songs_columns)
           dedup == drop_duplicates_last(filter(frame, artist_columns)) IN
          /\ songs_df' = frame
          /\ a' = dedup
          /\ pc' = IF dedup = <<>> THEN "artists_commit" ELSE "artist_table_insert"
    /\ i' = 1
    /\ executed' = Append(executed, Stmt("artists_select", -1))
    /\ UNCHANGED <<run, s3, temp_tables, staging, db, committed, df, log>>

\* One iteration of "for index, row in a.iterrows()": the insert, then the
\* progress message when the row's index label is a multiple of 1000.
ArtistInsert ==
    /\ pc = "artist_table_insert"
    /\ LET index == a[i].index
           row == a[i].row IN
          /\ db' = insert_values(db, "artists", artist_table_cols,
                                 to_list(row, artist_columns))
          /\ executed' = Append(executed, Stmt("artist_table_insert", index))
          /\ log' = IF index % ReportInterval = 0
                    THEN Append(log, [phase |-> "artists", stated |-> index + 1,
                                      written |-> i])
                    ELSE log
    /\ IF i < Len(a)
       THEN /\ i' = i + 1
            /\ pc' = pc
       ELSE /\ i' = 0
            /\ pc' = "artists_commit"
    /\ UNCHANGED <<run, s3, temp_tables, staging, committed, songs_df, a, df>>

\* A faulty variant: parse_and_insert without the commit after the artists.
ArtistsCommit_skipped ==
    /\ pc = "artists_commit"
    /\ songs_df' = drop_duplicates_first(drop(songs_df, to_drop))
    /\ pc' = "events_select"
    /\ i' = 0
    /\ UNCHANGED <<run, s3, temp_tables, staging, db, committed, a, df, executed, log>>

\* conn.commit() after _insert_df_to_artist, then the catalog frame:
\* songs_df.drop(to_drop, axis=1).drop_duplicates(keep='first').
ArtistsCommit ==
    /\ pc = "artists_commit"
    /\ committed' = db
    /\ executed' = Append(executed, Stmt("commit", -1))
    /\ songs_df' = drop_duplicates_first(drop(songs_df, to_drop))
    /\ pc' = "events_select"
    /\ i' = 0
    /\ UNCHANGED <<run, s3, temp_tables, staging, db, a, df, log>>

\* cur.execute(events_select); fetchall; df; and the head of
\* _insert_df_to_time_user_songplay: drop_duplicates(keep='last'), the
\* calendar columns, the two null id columns.
EventsSelect ==
    /\ pc = "events_select"
    /\ LET frame == DataFrame(events_select(staging), events_columns)
           dedup == with_null_ids(_timestamps_to_datetime(drop_duplicates_last(frame))) IN
          /\ df' = dedup
          /\ pc' = IF dedup = <<>> THEN "events_commit" ELSE "time_table_insert"
    /\ i' = 1
    /\ executed' = Append(executed, Stmt("events_select", -1))
    /\ UNCHANGED <<run, s3, temp_tables, staging, db, committed, songs_df, a, log>>

\* A faulty variant: the loop body goes from the time insert straight to the
\* songplay insert.
TimeInsert_skips_user ==
    /\ pc = "time_table_insert"
    /\ db' = insert_values(db, "time", time_table_cols, to_list(df[i].row, t_c))
    /\ executed' = Append(executed, Stmt("time_table_insert", df[i].index))
    /\ pc' = "songplay_table_insert"
    /\ UNCHANGED <<i, run, s3, temp_tables, staging, committed, songs_df, a, df, log>>

\* cur.execute(time_table_insert, row.filter(t_c).to_list())
TimeInsert ==
    /\ pc = "time_table_insert"
    /\ db' = insert_values(db, "time", time_table_cols, to_list(df[i].row, t_c))
    /\ executed' = Append(executed, Stmt("time_table_insert", df[i].index))
    /\ pc' = "user_table_insert"
    /\ UNCHANGED <<i, run, s3, temp_tables, staging, committed, songs_df, a, df, log>>

\* cur.execute(user_table_insert, row.filter(u_c).to_list())
UserInsert ==
    /\ pc = "user_table_insert"
    /\ db' = insert_values(db, "users", user_table_cols, to_list(df[i].row, u_c))
    /\ executed' = Append(executed, Stmt("user_table_insert", df[i].index))
    /\ pc' = "songplay_table_insert"
    /\ UNCHANGED <<i, run, s3, temp_tables, staging, committed, songs_df, a, df, log>>

\* A faulty variant: conn.commit() inside the row loop, once per row.
SongplayInsert_commits ==
    /\ pc = "songplay_table_insert"
    /\ LET index == df[i].index
           row == lookup(df[i].row, songs_df) IN
          /\ db' = insert_values(db, "songplays", songplay_table_cols,
                                 to_list(row, s_c))
          /\ committed' = db'
          /\ executed' = executed \o <<Stmt("songplay_table_insert", index),
                                       Stmt("commit", -1)>>
          /\ log' = IF index % ReportInterval = 0
                    THEN Append(log, [phase |-> "events", stated |-> index + 1,
                                      written |-> i])
                    ELSE log
    /\ IF i < Len(df)
       THEN /\ i' = i + 1
            /\ pc' = "time_table_insert"
       ELSE /\ i' = 0
            /\ pc' = "events_commit"
    /\ UNCHANGED <<run, s3, temp_tables, staging, songs_df, a, df>>

\* The catalog lookup, cur.execute(songplay_table_insert, row), the progress
\* message, and the step to the next row.
SongplayInsert ==
    /\ pc = "songplay_table_insert"
    /\ LET index == df[i].index
           row == lookup(df[i].row, songs_df) IN
          /\ db' = insert_values(db, "songplays", songplay_table_cols,
                                 to_list(row, s_c))
          /\ executed' = Append(executed, Stmt("songplay_table_insert", index))
          /\ log' = IF index % ReportInterval = 0
                    THEN Append(log, [phase |-> "events", stated |-> index + 1,
                                      written |-> i])
                    ELSE log
    /\ IF i < Len(df)
       THEN /\ i' = i + 1
            /\ pc' = "time_table_insert"
       ELSE /\ i' = 0
            /\ pc' = "events_commit"
    /\ UNCHANGED <<run, s3, temp_tables, staging, committed, songs_df, a, df>>

\* conn.commit() after _insert_df_to_time_user_songplay
EventsCommit ==
    /\ pc = "events_commit"
    /\ committed' = db
    /\ executed' = Append(executed, Stmt("commit", -1))
    /\ pc' = "close"
    /\ UNCHANGED <<i, run, s3, temp_tables, staging, db, songs_df, a, df, log>>

\* A faulty variant: staging tables that are not TEMPORARY outlive the session.
Close_keeps_staging ==
    /\ pc = "close"
    /\ db' = committed
    /\ executed' = Append(executed, Stmt("close", -1))
    /\ pc' = "done"
    /\ UNCHANGED <<i, run, s3, temp_tables, staging, committed, songs_df, a, df, log>>

\* conn.close(): the session ends and its TEMPORARY tables go with it.
Close ==
    /\ pc = "close"
    /\ temp_tables' = {}
    /\ staging' = EmptyStaging
    /\ db' = committed
    /\ executed' = Append(executed, Stmt("close", -1))
    /\ pc' = "done"
    /\ UNCHANGED <<i, run, s3, committed, songs_df, a, df, log>>

\* A faulty variant: a handler that commits what was written before the run
\* ends (try / finally: conn.commit()).
Fail_commits ==
    /\ pc \notin {"done", "aborted"}
    /\ pc' = "aborted"
    /\ committed' = db
    /\ UNCHANGED <<i, run, s3, temp_tables, staging, db, songs_df, a, df,
                   executed, log>>

\* Any store call raises: nothing in etl.py catches, so the exception leaves
\* main and the process ends.  The failed call has no effect, conn.commit()
\* and conn.close() are not reached.
Fail ==
    /\ pc \notin {"done", "aborted"}
    /\ pc' = "aborted"
    /\ UNCHANGED <<i, run, s3, temp_tables, staging, db, committed, songs_df, a, df,
                   executed, log>>

\* The script is started again on the same object-store input after a
\* completed run: a new process, a new session, the same target tables.
Rerun ==
    /\ pc = "done"
    /\ run < MaxRuns
    /\ run' = run + 1
    /\ pc' = "main"
    /\ i' = 0
    /\ songs_df' = <<>>
    /\ a' = <<>>
    /\ df' = <<>>
    /\ executed' = <<>>
    /\ log' = <<>>
    /\ UNCHANGED <<s3, temp_tables, staging, db, committed>>

Next ==
    \/ Connect
    \/ CreateStagingTable
    \/ CreateCommit
    \/ CopyToStaging
    \/ CopyCommit
    \/ SongFastInsert
    \/ ArtistsSelect
    \/ ArtistInsert
    \/ ArtistsCommit
    \/ EventsSelect
    \/ TimeInsert
    \/ UserInsert
    \/ SongplayInsert
    \/ EventsCommit
    \/ Close
    \/ Fail
    \/ Rerun

Spec == Init /\ [][Next]_vars

\* -------------------------------------------------- vocabulary of the claims
\* The rows inserted into a target table since the last commit.
Pending(t) == SubSeq(db[t], Len(committed[t]) + 1, Len(db[t]))

EventInserts == {"time_table_insert", "user_table_insert", "songplay_table_insert"}

EventPhase == {"events_select", "time_table_insert", "user_table_insert",
               "songplay_table_insert", "events_commit"}

\* The positions of the song-staging rows whose (title, artist name) is the
\* event row's (song, artist).
Matches(ev) ==
    { j \in 1..Len(staging.staging_songs) :
        /\ staging.staging_songs[j].title = ev.song_name
        /\ staging.staging_songs[j].artist_name = ev.artist_name }

\* The distinct (song_id, artist_id) pairs among those rows.
MatchIds(ev) ==
    { <<staging.staging_songs[j].song_id, staging.staging_songs[j].artist_id>> :
        j \in Matches(ev) }

Least(S) == CHOOSE j \in S : \A m \in S : j <= m

\* C1: every songplay row inserted for an event carries the ids of the one
\* catalog entry with exactly the event's (title, artist name); when no entry
\* has that pair the row is inserted all the same, with both ids null.
C1_ExactMatchOrNull ==
    LET sp == Pending("songplays") IN
    /\ \A p \in 1..Len(sp) :
          LET ids == MatchIds(df[p].row) IN
          /\ Cardinality(ids) = 1 => <<sp[p].song_id, sp[p].artist_id>> \in ids
          /\ ids = {} => sp[p].song_id = None /\ sp[p].artist_id = None
    /\ pc = "events_commit" => Len(sp) = Len(df)

C1_Witness ==
    /\ pc = "events_commit"
    /\ \E p, q \in 1..Len(df) :
          /\ Cardinality(MatchIds(df[p].row)) = 1
          /\ MatchIds(df[q].row) = {}
          /\ Pending("songplays")[p].song_id # None
          /\ Pending("songplays")[q].song_id = None

C3_ArtistRowsDistinct ==
    LET ins == Pending("artists") IN
    /\ \A p, q \in 1..Len(ins) : p # q => ins[p] # ins[q]
    /\ pc = "artists_commit" =>
          Range(ins) =
              { [artist_id |-> r.artist_id, name |-> r.artist_name,
                 location |-> r.artist_location, latitude |-> r.artist_latitude,
                 longitude |-> r.artist_longitude] : r \in Range(staging.staging_songs) }
    /\ drop_duplicates_last(a) = a

C3_Witness ==
    /\ pc = "artists_commit"
    /\ Len(Pending("artists")) = 1
    /\ Len(staging.staging_songs) >= 2

\* C4: within one batch at most one user row per userId is inserted, and it
\* carries the name, gender and level of the last event of that userId.
C4_OneUserRowPerUserId ==
    LET u == Pending("users") IN
    /\ \A p, q \in 1..Len(u) : p # q => u[p].user_id # u[q].user_id
    /\ pc = "events_commit" =>
          \A p \in 1..Len(u) :
              LET last == CHOOSE q \in 1..Len(df) :
                              /\ df[q].row.user_id = u[p].user_id
                              /\ \A m \in q + 1..Len(df) :
                                    df[m].row.user_id # u[p].user_id IN
              u[p] = [c \in Range(u_c) |-> df[last].row[c]]

\* C10: every progress report states the number of rows written so far.
C10_ReportStatesRowsWritten ==
    \A p \in 1..Len(log) : log[p].stated = log[p].written

\* The pipeline phase a statement belongs to (0 for a commit).
Phase(e) ==
    CASE e.stmt = "create" -> 1
      [] e.stmt = "copy" -> 2
      [] e.stmt \in {"song_table_fast_insert", "artists_select",
                     "artist_table_insert"} -> 3
      [] e.stmt = "events_select" -> 4
      [] e.stmt \in EventInserts -> 5
      [] e.stmt = "close" -> 6
      [] OTHER -> 0

\* The unit of work a statement belongs to: staging creation, staging copy,
\* catalog write, event write (0 for a commit, 5 for the close).
Unit(e) ==
    CASE Phase(e) \in {1, 2, 3} -> Phase(e)
      [] Phase(e) \in {4, 5} -> 4
      [] Phase(e) = 6 -> 5
      [] OTHER -> 0

Count(name) == Cardinality({ p \in 1..Len(executed) : executed[p].stmt = name })

\* C2: the statements of a run come phase after phase (create, copy, catalog,
\* event read, fact write, close), no phase is entered again once left; the
\* events are read and the facts written only after a commit that follows
\* every catalog statement, with the songs and artists it wrote committed; a
\* completed run has gone through every phase once.
C2_PhaseOrder ==
    /\ \A p, q \in 1..Len(executed) :
          p < q /\ Phase(executed[p]) # 0 /\ Phase(executed[q]) # 0
             => Phase(executed[p]) <= Phase(executed[q])
    /\ LET catalog == { m \in 1..Len(executed) : Phase(executed[m]) = 3 }
           events == { q \in 1..Len(executed) : Phase(executed[q]) \in {4, 5} } IN
       events # {} =>
          /\ Count("song_table_fast_insert") = 1
          /\ Count("artists_select") = 1
          /\ Count("artist_table_insert") = Len(a)
          /\ \E c \in 1..Len(executed) :
                /\ executed[c].stmt = "commit"
                /\ \A m \in catalog : m < c
                /\ \A q \in events : c < q
    /\ pc \in EventPhase =>
          /\ committed.artists = db.artists
          /\ committed.songs = db.songs
          /\ Len(db.artists) >= Len(a)
    /\ pc = "done" =>
          /\ Count("create") = 2
          /\ Count("copy") = 2
          /\ Count("song_table_fast_insert") = 1
          /\ Count("artists_select") = 1
          /\ Count("events_select") = 1
          /\ Count("close") = 1
          /\ Count("songplay_table_insert") = Len(df)

C2_Witness ==
    /\ pc = "done"
    /\ Count("artist_table_insert") >= 2
    /\ Count("songplay_table_insert") >= 2

\* The tuples the event query returns that differ from one another.
DistinctEvents == Range(events_select(s3))

\* C5: the statements of the event loop are, row after row of the
\* deduplicated frame in query order, the time insert, the user insert and
\* the songplay insert of that row; after the loop each of the three tables
\* has received as many rows as the query returned distinct rows.
C5_ThreeInsertsPerRow ==
    LET ev == SelectSeq(executed, LAMBDA e : e.stmt \in EventInserts)
        order == <<"time_table_insert", "user_table_insert", "songplay_table_insert">> IN
    /\ \A q \in 1..Len(ev) :
          ev[q] = Stmt(order[((q - 1) % 3) + 1], df[((q - 1) \div 3) + 1].index)
    /\ \A p, q \in 1..Len(df) : p < q => df[p].index < df[q].index
    /\ pc \in EventPhase \ {"events_select"} =>
          \A p \in 1..Len(df) :
              to_list(df[p].row, events_columns) = events_select(staging)[df[p].index + 1]
    /\ pc = "events_commit" =>
          /\ Len(Pending("time")) = Cardinality(DistinctEvents)
          /\ Len(Pending("users")) = Cardinality(DistinctEvents)
          /\ Len(Pending("songplays")) = Cardinality(DistinctEvents)
          /\ Len(ev) = 3 * Len(df)

C5_Witness ==
    /\ pc = "events_commit"
    /\ Len(df) = 2
    /\ Len(events_select(staging)) > Len(df)

\* C6 as stated: no commit lies between two statements of the same unit of
\* work, and a completed run has committed once per unit.
C6_OneCommitPerUnit ==
    /\ \A c \in 1..Len(executed) :
          executed[c].stmt = "commit" =>
              { Unit(executed[p]) : p \in 1..c - 1 }
                  \cap { Unit(executed[q]) : q \in c + 1..Len(executed) }
                  \subseteq {0}
    /\ pc = "done" => Count("commit") = 4

\* C6 amended: staging creation, catalog write and event write each end with
\* one commit after their last statement and hold no commit between two of
\* their statements; the staging copy commits after each copy statement; a
\* completed run has committed five times.
C6_CommitBoundaries ==
    /\ \A c \in 1..Len(executed) :
          executed[c].stmt = "commit" =>
              /\ c > 1 /\ executed[c - 1].stmt # "commit"
              /\ { Unit(executed[p]) : p \in 1..c - 1 }
                    \cap { Unit(executed[q]) : q \in c + 1..Len(executed) }
                    \subseteq {0, Unit(Stmt("copy", -1))}
    /\ \A q \in 2..Len(executed) :
          /\ Unit(executed[q]) # 0 /\ Unit(executed[q - 1]) # 0
                => Unit(executed[q]) = Unit(executed[q - 1])
          /\ executed[q - 1].stmt = "copy" => executed[q].stmt = "commit"
    /\ pc = "done" => Count("commit") = 5

C6_Witness ==
    /\ pc = "done"
    /\ Count("songplay_table_insert") >= 2
    /\ Count("artist_table_insert") >= 2

\* C7: the step on which a store call fails executes nothing and commits
\* nothing, and after it the run executes no statement and commits nothing:
\* what was committed stays, what was pending stays uncommitted.
C7_FailureEndsRun ==
    [][ /\ pc' = "aborted" => UNCHANGED <<executed, committed, db, staging, run>>
        /\ pc = "aborted" => pc' = "aborted" ]_vars

C7_Witness ==
    /\ pc = "aborted"
    /\ committed.artists # <<>>
    /\ Len(Pending("songplays")) >= 1
    /\ Len(Pending("time")) > Len(Pending("songplays"))

\* C8: after the k-th completed run on the same input every target table is
\* k copies of what one run writes: the staging tables of a run hold the
\* input once, and the target tables only grow.
C8_RerunDuplicates ==
    /\ pc = "main" => temp_tables = {} /\ staging = EmptyStaging
    /\ pc \in EventPhase => staging = s3
    /\ pc = "done" =>
          /\ Len(committed.songs) = run * Len(s3.staging_songs)
          /\ \A t \in DOMAIN committed :
                LET n == Len(committed[t])
                    m == n \div run IN
                /\ n = m * run
                /\ \A q \in 1..n : committed[t][q] = committed[t][((q - 1) % m) + 1]

C8_Witness ==
    /\ pc = "done"
    /\ run = 2
    /\ \A t \in DOMAIN committed : committed[t] # <<>>
    /\ Len(committed.users) >= 4

====
